---- MODULE Spec2Model ----
(***************************************************************************)
(* State-machine model of server.py: the ISS telemetry collector, its      *)
(* SQLite store (table iss_positions) and the HTTP query/export endpoints. *)
(*                                                                         *)
(* Conventions                                                             *)
(*  - Degrees and kilometres are kept in hundredths (10.5 deg = 1050), so  *)
(*    that the REAL columns of the table are integers here.                *)
(*  - A "YYYY-MM-DD HH:MM:SS" string is the tuple <<day, hh, mm, ss>> with *)
(*    day the number of the calendar day; the text comparison SQLite makes *)
(*    on such strings is the lexicographic order of the tuples.  A date    *)
(*    string "YYYY-MM-DD" is the one-element tuple <<day>>.                *)
(*  - Python's None / SQL NULL is the empty tuple <<>>, a present value x  *)
(*    is <<x>>.                                                            *)
(***************************************************************************)
EXTENDS Integers, Sequences, FiniteSets, TLC

VARIABLES
    store,              \* rows of table iss_positions
    seq,                \* sqlite_sequence entry of the table (AUTOINCREMENT)
    now,                \* wall clock, seconds since the epoch (UTC)
    sample_data,        \* SAMPLE_DATA, fixed at process start
    ties_by_id,         \* how SQLite orders rows of equal sort key, once seen
    caller,             \* position of each thread inside start_collector_thread
    threads,            \* Thread(target=background_loop).start() calls so far
    main_done,          \* the __main__ block has started the collector
    serving,            \* ensure_started has run: requests are served
    collector_started,  \* module global collector_started
    stop_event,         \* module global stop_event (is_set)
    pc,                 \* position of background_loop
    pos,                \* background_loop's local pos (<<>> is None)
    cleanup_counter,    \* background_loop's local cleanup_counter
    payload,            \* history: the upstream answer of the last fetch
    fetched,            \* history: number of rows stored from fetched payloads
    issued,             \* history: ids assigned by INSERTs, in order
    lastOp,             \* history: the step the program took last
    prevStore,          \* history: store before that step
    resp                \* response, when that step served a request

vars == <<store, seq, now, sample_data, ties_by_id, caller, threads, main_done,
          serving, collector_started, stop_event, pc, pos, cleanup_counter,
          payload, fetched, issued, lastOp, prevStore, resp>>

-----------------------------------------------------------------------------
(* Bounds of the model *)

\* INSERTs made from fetched payloads (poller and /api/current together)
MaxInserts == 2
\* threads that call start_collector_thread at the same time
NumCallers == 2
\* matching records up to which total_pages is tabulated
MaxTotal == 30
\* inter-cycle waits of the poller that run to their timeout
MaxCycles == 2

-----------------------------------------------------------------------------
(* Configuration *)

FETCH_INTERVAL == 1500
MAX_RETENTION_DAYS == 2

DayLen == 24 * 3600
\* process start: 00:01:40 UTC of day 100
StartTime == 100 * DayLen + 100

None == <<>>
Some(x) == <<x>>

-----------------------------------------------------------------------------
(* Time rendering: datetime.utcfromtimestamp(t).strftime(...) *)

\* strftime("%Y-%m-%d %H:%M:%S"), for instants whose year has four digits
StrfTime(t) ==
    <<t \div DayLen, (t % DayLen) \div 3600, (t % 3600) \div 60, t % 60>>

\* strftime("%Y-%m-%d")
StrfDate(t) == <<t \div DayLen>>

\* ts_utc.split(" ")[0]
DatePrefix(ts) == <<ts[1]>>

\* text comparison a < b of two "YYYY-MM-DD HH:MM:SS" strings: the fields
\* have fixed widths, so the first field that differs decides
LexLess(a, b) ==
    \/ a[1] < b[1]
    \/ /\ a[1] = b[1]
       /\ \/ a[2] < b[2]
          \/ /\ a[2] = b[2]
             /\ \/ a[3] < b[3]
                \/ a[3] = b[3] /\ a[4] < b[4]

\* text comparison a < b of two "YYYY-MM-DD" strings
DateLess(a, b) == a[1] < b[1]

\* the instant a timestamp string denotes (used by the properties only)
Instant(ts) == ts[1] * DayLen + ts[2] * 3600 + ts[3] * 60 + ts[4]

-----------------------------------------------------------------------------
(* Upstream payloads *)

\* A JSON field: missing key, null, a non-numeric string, a number, or a
\* string holding a number ("10.5").
Absent == [tag |-> "absent", v |-> 0]
Null == [tag |-> "null", v |-> 0]
Text == [tag |-> "text", v |-> 0]
Num(n) == [tag |-> "num", v |-> n]
NumStr(n) == [tag |-> "numstr", v |-> n]

\* float(x) / int(x) raise on None and on a non-numeric string
Converts(x) == x.tag \in {"num", "numstr"}

\* dict.get(key): None for a missing key and for null
IsNone(x) == x.tag \in {"absent", "null"}

\* A payload is the decoded JSON object, or the failure of the request
\* (network error, timeout, non-200, malformed JSON).
FetchFailed == [kind |-> "failed"]

Flat(lat, lon, alt, ts) ==
    [kind |-> "json", latitude |-> lat, longitude |-> lon, altitude |-> alt,
     timestamp |-> ts, iss_position |-> None]

Nested(lat, lon, ts) ==
    [kind |-> "json", latitude |-> Absent, longitude |-> Absent,
     altitude |-> Absent, timestamp |-> ts,
     iss_position |-> Some([latitude |-> lat, longitude |-> lon])]

RetentionSecs == MAX_RETENTION_DAYS * DayLen

\* values a field takes in the modelled answers
FlatLat == {Absent, Null, Text, Num(9100)}
FlatLon == {Absent, Null, Num(18100)}
FlatAlt == {Null, Text, Num(40800)}
FlatTs(t) ==
    {Absent, Null, Text, Num(t - RetentionSecs), Num(t - RetentionSecs - 1)}
NestedLat == {Absent, Null}
NestedLon == {Absent, Null}
NestedTs(t) == {Absent, Text}

\* The answers the upstream source may give at time t: a failure, or the
\* plain payload of either shape (numbers in the flat one, numbers as text
\* in the nested one, no altitude) with at most one field changed.
Payloads(t) ==
    {FetchFailed, Flat(Num(1050), Num(2010), Absent, Num(t)),
     Nested(NumStr(1050), NumStr(2010), Num(t))}
    \cup {Flat(x, Num(2010), Absent, Num(t)) : x \in FlatLat}
    \cup {Flat(Num(1050), x, Absent, Num(t)) : x \in FlatLon}
    \cup {Flat(Num(1050), Num(2010), x, Num(t)) : x \in FlatAlt}
    \cup {Flat(Num(1050), Num(2010), Absent, x) : x \in FlatTs(t)}
    \cup {Nested(x, NumStr(2010), Num(t)) : x \in NestedLat}
    \cup {Nested(NumStr(1050), x, Num(t)) : x \in NestedLon}
    \cup {Nested(NumStr(1050), NumStr(2010), x) : x \in NestedTs(t)}

\* the answers of a source that is up and well-formed
PlainPayloads(t) ==
    {FetchFailed, Flat(Num(1050), Num(2010), Absent, Num(t))}

\* the same, and a well-formed answer that carries a reading one day old
QueryPayloads(t) ==
    PlainPayloads(t)
    \cup {Flat(Num(-3000), Num(4000), Num(40800), Num(t - DayLen))}

-----------------------------------------------------------------------------
(* Normalisation: each parser yields Some(pos), or None when it raises    *)
(* (the exception is caught in fetch_iss_position_once).                  *)

\* data.get("timestamp", time.time()): the default only for a missing key
TimestampArg(data, t) ==
    IF data.timestamp.tag = "absent" THEN Num(t) ELSE data.timestamp

\* Variant: a latitude or longitude that is None is read as 0.0.
parse_wther_resp_default(data, t) ==
    IF /\ Converts(TimestampArg(data, t))
       /\ (IsNone(data.latitude) \/ Converts(data.latitude))
       /\ (IsNone(data.longitude) \/ Converts(data.longitude))
       /\ (IsNone(data.altitude) \/ Converts(data.altitude))
    THEN Some([latitude |-> data.latitude.v,
               longitude |-> data.longitude.v,
               altitude |-> IF IsNone(data.altitude) THEN None
                            ELSE Some(data.altitude.v),
               ts_utc |-> StrfTime(TimestampArg(data, t).v)])
    ELSE None

parse_wther_resp(data, t) ==
    IF /\ Converts(TimestampArg(data, t))
       /\ Converts(data.latitude)
       /\ Converts(data.longitude)
       /\ (IsNone(data.altitude) \/ Converts(data.altitude))
    THEN Some([latitude |-> data.latitude.v,
               longitude |-> data.longitude.v,
               altitude |-> IF IsNone(data.altitude) THEN None
                            ELSE Some(data.altitude.v),
               ts_utc |-> StrfTime(TimestampArg(data, t).v)])
    ELSE None

parse_open_notify(data, t) ==
    LET p == data.iss_position[1] IN
    IF /\ Converts(TimestampArg(data, t))
       /\ Converts(p.latitude)
       /\ Converts(p.longitude)
    THEN Some([latitude |-> p.latitude.v,
               longitude |-> p.longitude.v,
               altitude |-> None,
               ts_utc |-> StrfTime(TimestampArg(data, t).v)])
    ELSE None

\* truth value of data.get("iss_position"): a non-empty object
HasIssPosition(data) ==
    /\ data.iss_position # None
    /\ ~ (data.iss_position[1].latitude.tag = "absent"
          /\ data.iss_position[1].longitude.tag = "absent")

fetch_iss_position_once(data, t) ==
    IF data.kind = "failed" THEN None
    ELSE IF HasIssPosition(data) THEN parse_open_notify(data, t)
    ELSE parse_wther_resp(data, t)

-----------------------------------------------------------------------------
(* The table iss_positions *)

Ids(st) == {r.id : r \in st}

MaxOf(S) == IF S = {} THEN 0 ELSE CHOOSE m \in S : \A x \in S : x <= m

\* Variant: a plain INTEGER PRIMARY KEY, which takes one more than the
\* largest id now in the table.
NextIdRowid(st, sq) == MaxOf(Ids(st)) + 1

\* id INTEGER PRIMARY KEY AUTOINCREMENT: one more than the largest id the
\* table ever held (kept in sqlite_sequence), rows deleted or not
NextId(st, sq) == MaxOf(Ids(st) \cup {sq}) + 1

\* INSERT INTO iss_positions (latitude, longitude, altitude, timestamp, day)
InsertRow(st, sq, lat, lon, alt, ts, day) ==
    st \cup {[id |-> NextId(st, sq), latitude |-> lat, longitude |-> lon,
              altitude |-> alt, timestamp |-> ts, day |-> day]}

\* the day column save_position derives from ts_utc
SaveDay(ts_utc) == DatePrefix(ts_utc)

\* save_position(latitude, longitude, altitude, ts_utc), committed
save_position(st, sq, p) ==
    InsertRow(st, sq, p.latitude, p.longitude, p.altitude, p.ts_utc,
              SaveDay(p.ts_utc))

\* cutoff of cleanup_old_data at clock reading t
Cutoff(t) == StrfTime(t - RetentionSecs)

\* Variant: eviction by whole days, DELETE ... WHERE day < date(cutoff).
DeleteOlderDays(st, cutoff) ==
    {r \in st : ~ DateLess(r.day, DatePrefix(cutoff))}

\* Variant: DELETE ... WHERE timestamp <= cutoff.
DeleteUpTo(st, cutoff) == {r \in st : LexLess(cutoff, r.timestamp)}

\* DELETE FROM iss_positions WHERE timestamp < cutoff
DeleteOlder(st, cutoff) == {r \in st : ~ LexLess(r.timestamp, cutoff)}

\* SELECT COUNT(*) FROM iss_positions
get_record_count(st) == Cardinality(st)

-----------------------------------------------------------------------------
(* Sample-data seeding of ensure_started *)

\* range(3) days, range(1000) rows a day
SeedDays == 3
SeedPerDay == 1000

\* The iterations i of the inner loop whose rows the model keeps.  Every
\* kept row is the row the code writes for that i, id included; the rows of
\* the other iterations are left out of the modelled table.
SeedSample == {0, 136}

\* the row written for (day_off, i) by a seeding that starts at clock t
\* with sqlite_sequence at sq
SeedRow(t, sq, day_off, i) ==
    LET day_ts == t - day_off * DayLen
        tp == day_ts - i
    IN [id |-> sq + day_off * SeedPerDay + i + 1,
        latitude |-> 4500 + ((i % 180) - 90) * 100,
        longitude |-> -18000 + ((i * 72) % 36000),
        altitude |-> Some(40800 + (i % 20) * 30),
        timestamp |-> StrfTime(tp),
        day |-> StrfDate(day_ts)]

SeedRows(t, sq) ==
    {SeedRow(t, sq, d, i) : d \in 0 .. (SeedDays - 1), i \in SeedSample}

\* the ids of the kept rows in the order of their INSERTs
RECURSIVE Ascending(_)
Ascending(S) ==
    IF S = {} THEN <<>>
    ELSE LET m == CHOOSE x \in S : \A y \in S : x <= y
         IN <<m>> \o Ascending(S \ {m})

\* the threads that may be inside start_collector_thread together
Callers == 1 .. NumCallers

-----------------------------------------------------------------------------
(* Initial state: a fresh database, nothing started *)

Init ==
    /\ store = {}
    /\ seq = 0
    /\ now = StartTime
    /\ sample_data \in BOOLEAN
    /\ ties_by_id = None
    /\ caller = [c \in Callers |-> "idle"]
    /\ threads = 0
    /\ main_done = FALSE
    /\ serving = FALSE
    /\ collector_started = FALSE
    /\ stop_event = FALSE
    /\ pc = "not_started"
    /\ pos = None
    /\ cleanup_counter = 0
    /\ payload = FetchFailed
    /\ fetched = 0
    /\ issued = <<>>
    /\ lastOp = "init"
    /\ prevStore = {}
    /\ resp = None

\* history kept by a step of the program that is not a cleanup pass and
\* serves no request
History(op) ==
    /\ lastOp' = op
    /\ prevStore' = store
    /\ resp' = None

-----------------------------------------------------------------------------
(* Startup *)

\* start_collector_thread() called where no other thread is inside it: the
\* flag, then Thread(target=background_loop).start()
start_collector_thread ==
    /\ collector_started' = TRUE
    /\ threads' = IF collector_started THEN threads ELSE threads + 1
    /\ pc' = IF collector_started THEN pc ELSE "loop"
    /\ cleanup_counter' = IF collector_started THEN cleanup_counter ELSE 0

\* the __main__ block up to app.run
Main ==
    /\ ~ main_done
    /\ ~ serving
    /\ main_done' = TRUE
    /\ start_collector_thread
    /\ History("main")
    /\ UNCHANGED <<store, seq, now, sample_data, ties_by_id, caller, serving,
                   stop_event, pos, payload, fetched, issued>>

\* ensure_started(): init_database, the seeding, start_collector_thread
ensure_started ==
    /\ ~ serving
    /\ serving' = TRUE
    /\ IF sample_data /\ get_record_count(store) = 0
       THEN /\ store' = store \cup SeedRows(now, seq)
            /\ seq' = seq + SeedDays * SeedPerDay
            /\ issued' = issued \o Ascending(Ids(SeedRows(now, seq)))
       ELSE UNCHANGED <<store, seq, issued>>
    /\ start_collector_thread
    /\ History("ensure_started")
    /\ UNCHANGED <<now, sample_data, ties_by_id, caller, main_done,
                   stop_event, pos, payload, fetched>>

\* start_collector_thread() entered by thread c while others may be inside
\* it, first step: if collector_started: return
CallCheck(c) ==
    /\ caller[c] = "idle"
    /\ caller' = [caller EXCEPT
                    ![c] = IF collector_started THEN "returned" ELSE "passed"]
    /\ History("call_check")
    /\ UNCHANGED <<store, seq, now, sample_data, ties_by_id, threads,
                   main_done, serving, collector_started, stop_event, pc, pos,
                   cleanup_counter, payload, fetched, issued>>

\* second step: collector_started = True; Thread(...).start().  pc follows
\* the background_loop started first; a further one is counted in threads.
CallStart(c) ==
    /\ caller[c] = "passed"
    /\ caller' = [caller EXCEPT ![c] = "returned"]
    /\ collector_started' = TRUE
    /\ threads' = threads + 1
    /\ pc' = IF threads = 0 THEN "loop" ELSE pc
    /\ cleanup_counter' = IF threads = 0 THEN 0 ELSE cleanup_counter
    /\ History("call_start")
    /\ UNCHANGED <<store, seq, now, sample_data, ties_by_id, main_done,
                   serving, stop_event, pos, payload, fetched, issued>>

-----------------------------------------------------------------------------
(* background_loop, one action per step of a cycle *)

\* inter-cycle waits that have run to their timeout
CyclesElapsed == (now - StartTime) \div FETCH_INTERVAL

\* the upstream answers considered in the current state: those of P that
\* store nothing once MaxInserts rows have been stored
Answers(P) ==
    {d \in P : fetch_iss_position_once(d, now) = None \/ fetched < MaxInserts}

\* threshold = max(1, int(3600 / max(1, FETCH_INTERVAL)))
Max2(a, b) == IF a >= b THEN a ELSE b
Threshold == Max2(1, 3600 \div Max2(1, FETCH_INTERVAL))

\* Variant: a loop that does not look at the event, while True.
PollCheckForever ==
    /\ pc = "loop"
    /\ pc' = "fetch"
    /\ History("check")
    /\ UNCHANGED <<store, seq, now, sample_data, ties_by_id, caller, threads,
                   main_done, serving, collector_started, stop_event, pos,
                   cleanup_counter, payload, fetched, issued>>

\* while not stop_event.is_set()
PollCheck ==
    /\ pc = "loop"
    /\ pc' = IF stop_event THEN "stopped" ELSE "fetch"
    /\ History("check")
    /\ UNCHANGED <<store, seq, now, sample_data, ties_by_id, caller,
                   main_done, serving, collector_started, threads, stop_event,
                   pos, cleanup_counter, payload, fetched, issued>>

\* pos = fetch_iss_position_once(); if pos: ... else: ...
PollFetch ==
    /\ pc = "fetch"
    /\ \E data \in Answers(Payloads(now)) :
         /\ payload' = data
         /\ pos' = fetch_iss_position_once(data, now)
         /\ pc' = IF fetch_iss_position_once(data, now) # None
                  THEN "save" ELSE "counter"
    /\ History("fetch")
    /\ UNCHANGED <<store, seq, now, sample_data, ties_by_id, caller,
                   main_done, serving, collector_started, threads, stop_event,
                   cleanup_counter, fetched, issued>>

\* try: save_position(...) except Exception: logged
\* count = get_record_count(), outside any try: an exception of it leaves
\* background_loop and ends the thread.  The two calls are one step: no
\* other thread reads what lies between them.
PollSave ==
    /\ pc = "save"
    /\ \/ /\ store' = save_position(store, seq, pos[1])
          /\ seq' = NextId(store, seq)
          /\ issued' = Append(issued, NextId(store, seq))
          /\ fetched' = fetched + 1
          /\ \/ pc' = "counter" /\ History("save")
             \/ pc' = "crashed" /\ History("save, count_failed")
       \/ /\ UNCHANGED <<store, seq, issued, fetched>>
          /\ \/ pc' = "counter" /\ History("save_failed")
             \/ pc' = "crashed" /\ History("save_failed, count_failed")
    /\ UNCHANGED <<now, sample_data, ties_by_id, caller, main_done, serving,
                   collector_started, threads, stop_event, pos,
                   cleanup_counter, payload>>

\* cleanup_counter += 1; if cleanup_counter >= threshold.  pos is not read
\* again before the next fetch assigns it: the model forgets it here.
PollCounter ==
    /\ pc = "counter"
    /\ cleanup_counter' = cleanup_counter + 1
    /\ pc' = IF cleanup_counter + 1 >= Threshold THEN "cleanup" ELSE "wait"
    /\ pos' = None
    /\ payload' = FetchFailed
    /\ History("counter")
    /\ UNCHANGED <<store, seq, now, sample_data, ties_by_id, caller,
                   main_done, serving, collector_started, threads, stop_event,
                   fetched, issued>>

\* cleanup_old_data(), committed
cleanup_old_data ==
    /\ store' = DeleteOlder(store, Cutoff(now))
    /\ prevStore' = store
    /\ lastOp' = "cleanup"
    /\ resp' = None

\* try: cleanup_old_data() except Exception: logged; cleanup_counter = 0
PollCleanup ==
    /\ pc = "cleanup"
    /\ \/ cleanup_old_data
       \/ /\ UNCHANGED store
          /\ History("cleanup_failed")
    /\ cleanup_counter' = 0
    /\ pc' = "wait"
    /\ UNCHANGED <<seq, now, sample_data, ties_by_id, caller, main_done,
                   serving, collector_started, threads, stop_event, pos,
                   payload, fetched, issued>>

\* stop_event.wait(FETCH_INTERVAL): woken by the event, or timed out
PollWait ==
    /\ pc = "wait"
    /\ \/ /\ stop_event
          /\ UNCHANGED now
       \/ /\ ~ stop_event
          /\ CyclesElapsed < MaxCycles
          /\ now' = now + FETCH_INTERVAL
    /\ pc' = "loop"
    /\ History("wait")
    /\ UNCHANGED <<store, seq, sample_data, ties_by_id, caller, main_done,
                   serving, collector_started, threads, stop_event, pos,
                   cleanup_counter, payload, fetched, issued>>

-----------------------------------------------------------------------------
(* Query results *)

\* x comes before y in ORDER BY timestamp ASC (DESC when desc).  Rows of
\* equal timestamp come in an order SQL does not promise: by ascending id
\* (a forward scan, a stable sort) when tie_asc, by descending id (a
\* backward scan) otherwise.  The choice belongs to the SQLite library the
\* process runs with: the same statement over the same table takes the same
\* plan.  It is one choice for the whole run, made in the model when the
\* first ordered query shows it (variable ties_by_id).
Before(x, y, desc, tie_asc) ==
    \/ IF desc THEN LexLess(y.timestamp, x.timestamp)
               ELSE LexLess(x.timestamp, y.timestamp)
    \/ /\ x.timestamp = y.timestamp
       /\ IF tie_asc THEN x.id < y.id ELSE x.id > y.id

RECURSIVE Ordered(_, _, _)
Ordered(S, desc, tie_asc) ==
    IF S = {} THEN <<>>
    ELSE LET first == CHOOSE x \in S :
                        \A y \in S \ {x} : Before(x, y, desc, tie_asc)
         IN <<first>> \o Ordered(S \ {first}, desc, tie_asc)

TieChoices == IF ties_by_id = None THEN BOOLEAN ELSE {ties_by_id[1]}

\* Variant: the export query with the sort direction of the listing.
NewestFirst(S, tie_asc) == Ordered(S, TRUE, tie_asc)

\* ORDER BY timestamp ASC
AscOrder(S, tie_asc) == Ordered(S, FALSE, tie_asc)

\* ORDER BY timestamp DESC
DescOrder(S, tie_asc) == Ordered(S, TRUE, tie_asc)

\* SELECT DISTINCT day FROM iss_positions ORDER BY day DESC
RECURSIVE DaysDesc(_)
DaysDesc(D) ==
    IF D = {} THEN <<>>
    ELSE LET m == CHOOSE x \in D : \A y \in D : ~ DateLess(x, y)
         IN <<m>> \o DaysDesc(D \ {m})

DistinctDays(st) == DaysDesc({r.day : r \in st})

Min2(a, b) == IF a <= b THEN a ELSE b

\* LIMIT n OFFSET k applied to an ordered result
LimitOffset(rows, n, k) == SubSeq(rows, k + 1, Min2(k + n, Len(rows)))

\* the row as SELECT ... timestamp AS ts_utc ... returns it
Selected(r) ==
    [id |-> r.id, latitude |-> r.latitude, longitude |-> r.longitude,
     altitude |-> r.altitude, ts_utc |-> r.timestamp, day |-> r.day]

\* history kept by a step that serves a request
Served(op, answer) ==
    /\ lastOp' = op
    /\ prevStore' = store
    /\ resp' = Some(answer)

-----------------------------------------------------------------------------
(* Endpoints.  A handler runs as one step.  The handlers and background_loop
   share the table only; the model places the requests at the positions of
   the loop that lie before and after its writes. *)

RequestPoints ==
    {"not_started", "loop", "cleanup", "wait", "stopped", "crashed"}

Serving == serving /\ pc \in RequestPoints

\* SELECT ... ORDER BY timestamp DESC LIMIT 1, as api_current returns it
LatestRows(st) ==
    {[latitude |-> r.latitude, longitude |-> r.longitude,
      altitude |-> r.altitude, ts_utc |-> r.timestamp, day |-> r.day] :
       r \in {x \in st : \A y \in st : ~ LexLess(x.timestamp, y.timestamp)}}

\* GET /api/current: a live fetch, saved when it gives a position; the
\* newest stored row otherwise.  P: the answers the source may give.
api_current(P) ==
    /\ Serving
    /\ \E p \in {fetch_iss_position_once(data, now) : data \in Answers(P)} :
         IF p # None
         THEN \/ /\ store' = save_position(store, seq, p[1])
                 /\ seq' = NextId(store, seq)
                 /\ issued' = Append(issued, NextId(store, seq))
                 /\ fetched' = fetched + 1
                 /\ Served("api_current",
                           [status |-> 200, pos |-> p, saved |-> TRUE,
                            body |-> p[1]])
              \/ /\ UNCHANGED <<store, seq, issued, fetched>>
                 /\ Served("api_current",
                           [status |-> 200, pos |-> p, saved |-> FALSE,
                            body |-> p[1]])
         ELSE /\ UNCHANGED <<store, seq, issued, fetched>>
              /\ IF store = {}
                 THEN Served("api_current",
                             [status |-> 404, pos |-> p, saved |-> FALSE,
                              body |-> [error |-> "No data available"]])
                 ELSE \E row \in LatestRows(store) :
                        Served("api_current",
                               [status |-> 200, pos |-> p, saved |-> FALSE,
                                body |-> row])
    /\ UNCHANGED <<now, sample_data, ties_by_id, caller, main_done, serving,
                   collector_started, threads, stop_event, pc, pos,
                   cleanup_counter, payload>>

\* request.args.get(name, default) then int(...): the default when the
\* parameter is missing, else the integer its text spells
IntArg(a, default) == IF a.tag = "absent" THEN default ELSE a.v
IntArgOk(a) == a.tag \in {"absent", "numstr"}

\* page = max(1, int(request.args.get("page", 1)))
PageOf(pa) == Max2(1, IntArg(pa, 1))

\* per_page = min(5000, max(1, int(request.args.get("per_page", 1000))))
PerPageOf(pp) == Min2(5000, Max2(1, IntArg(pp, 1000)))

\* Variant: the page number itself taken as the OFFSET.
PageOffsetUnscaled(page, per_page) == page - 1

\* OFFSET of the page: (page - 1) * per_page
PageOffset(page, per_page) == (page - 1) * per_page

\* WHERE day = ? when day_filter is given (and not empty), every row else
Matching(st, day_filter) ==
    IF day_filter # None THEN {r \in st : r.day = day_filter[1]} ELSE st

\* Variant: the quotient rounded down.
TotalPagesTruncated(total, per_page) ==
    IF total # 0 THEN total \div per_page ELSE 1

\* total_pages = (total + per_page - 1) // per_page if total else 1
TotalPages(total, per_page) ==
    IF total # 0 THEN (total + per_page - 1) \div per_page ELSE 1

\* the records of one page: ORDER BY timestamp DESC LIMIT ? OFFSET ?
RecordsPage(st, day_filter, page, per_page, tie_asc) ==
    LET slice == LimitOffset(DescOrder(Matching(st, day_filter), tie_asc),
                             per_page, PageOffset(page, per_page))
    IN [i \in DOMAIN slice |-> Selected(slice[i])]

\* GET /api/all-records?page=&per_page=&day=
api_all_records(PageArgs, PerPageArgs, DayArgs) ==
    /\ Serving
    /\ \E pa \in PageArgs, pp \in PerPageArgs, day_filter \in DayArgs :
         IF ~ (IntArgOk(pa) /\ IntArgOk(pp))
         THEN /\ Served("api_all_records",
                        [status |-> 500, page_arg |-> pa,
                         per_page_arg |-> pp, day_filter |-> day_filter,
                         body |-> [error |-> "Unable to fetch records"]])
              /\ UNCHANGED ties_by_id
         ELSE \E b \in TieChoices :
              \E records \in {RecordsPage(store, day_filter, PageOf(pa),
                                          PerPageOf(pp), b)} :
              \E total \in {Cardinality(Matching(store, day_filter))} :
                /\ ties_by_id' = Some(b)
                /\ Served("api_all_records",
                          [status |-> 200, page_arg |-> pa,
                           per_page_arg |-> pp, day_filter |-> day_filter,
                           body |->
                             [records |-> records,
                              total |-> total,
                              page |-> PageOf(pa),
                              per_page |-> PerPageOf(pp),
                              total_pages |->
                                TotalPages(total, PerPageOf(pp)),
                              available_days |-> DistinctDays(store)]])
    /\ UNCHANGED <<store, seq, now, sample_data, caller, threads, main_done,
                   serving, collector_started, stop_event, pc, pos,
                   cleanup_counter, payload, fetched, issued>>

\* one line of the export: altitude is the empty text when NULL
CsvRow(r) ==
    [id |-> r.id, latitude |-> r.latitude, longitude |-> r.longitude,
     altitude |-> r.altitude, ts_utc |-> r.timestamp, day |-> r.day]

\* if day_filter and not all_days: the day the export is scoped to
ExportScope(day_filter, all_days) == IF all_days THEN None ELSE day_filter

\* GET /api/download-csv?day=&all=
download_csv(DayArgs, AllArgs) ==
    /\ Serving
    /\ \E day_filter \in DayArgs, all_days \in AllArgs :
         \E b \in TieChoices :
         \E rows \in {AscOrder(Matching(store, ExportScope(day_filter,
                                                            all_days)), b)} :
           /\ ties_by_id' = Some(b)
           /\ Served("download_csv",
                     [status |-> 200, day_filter |-> day_filter,
                      all_days |-> all_days,
                      filename |-> IF day_filter # None THEN day_filter
                                   ELSE Some("all"),
                      body |-> [i \in DOMAIN rows |-> CsvRow(rows[i])]])
    /\ UNCHANGED <<store, seq, now, sample_data, caller, main_done, serving,
                   collector_started, threads, stop_event, pc, pos,
                   cleanup_counter, payload, fetched, issued>>

\* GET /api/stats
api_stats ==
    /\ Serving
    /\ \E days \in {DistinctDays(store)} :
       Served("api_stats",
              [status |-> 200,
               body |->
                 [total_records |-> Cardinality(store),
                  records_per_day |->
                    [i \in DOMAIN days |->
                       <<days[i],
                         Cardinality({r \in store : r.day = days[i]})>>],
                  collection_interval_seconds |-> FETCH_INTERVAL,
                  max_retention_days |-> MAX_RETENTION_DAYS]])
    /\ UNCHANGED <<store, seq, now, sample_data, ties_by_id, caller,
                   main_done, serving, collector_started, threads, stop_event,
                   pc, pos, cleanup_counter, payload, fetched, issued>>

-----------------------------------------------------------------------------
(* Environment *)

\* stop_event.set() by the host of the module.  background_loop reads the
\* event in the loop condition and in the wait only, so the model lets it be
\* set at those positions and before a fetch.
Shutdown ==
    /\ ~ stop_event
    /\ pc \in {"not_started", "loop", "fetch", "wait", "stopped", "crashed"}
    /\ stop_event' = TRUE
    /\ UNCHANGED <<lastOp, prevStore, resp>>
    /\ UNCHANGED <<store, seq, now, sample_data, ties_by_id, caller,
                   main_done, serving, collector_started, threads, pc, pos,
                   cleanup_counter, payload, fetched, issued>>

-----------------------------------------------------------------------------

Next ==
    \/ Main
    \/ ensure_started
    \/ PollCheck
    \/ PollFetch
    \/ PollSave
    \/ PollCounter
    \/ PollCleanup
    \/ PollWait
    \/ Shutdown
    \/ api_current(PlainPayloads(now))

Spec == Init /\ [][Next]_vars

-----------------------------------------------------------------------------
(* The request side alone: the behaviours in which background_loop, once
   started, has not yet been scheduled.  The read-only endpoints are taken
   with their query parameters here. *)

\* a day parameter that is not of the form YYYY-MM-DD: a text that is no
\* date string
NotADate == <<0, 0>>
IsDateText(d) == Len(d) = 1

PageArgs == {Absent, NumStr(0), NumStr(2), Text}
PerPageArgs == {Absent, NumStr(2), NumStr(6000)}
DayArgs ==
    {None, Some(StrfDate(StartTime)), Some(StrfDate(StartTime - DayLen)),
     Some(NotADate)}

NextQuery ==
    \/ ensure_started
    \/ api_current(QueryPayloads(now))
    \/ api_all_records(PageArgs, PerPageArgs, DayArgs)
    \/ download_csv(DayArgs, BOOLEAN)
    \/ api_stats

SpecQuery == Init /\ [][NextQuery]_vars

-----------------------------------------------------------------------------
(* The collector alone, started by the __main__ block, with the scheduling
   of its thread: a step of background_loop that can be taken is taken in the
   end (the thread is scheduled; requests.get has timeout=8, so a fetch
   returns). *)

PollStep ==
    \/ PollCheck
    \/ PollFetch
    \/ PollSave
    \/ PollCounter
    \/ PollCleanup
    \/ PollWait

NextPoller ==
    \/ Main
    \/ PollStep
    \/ Shutdown

SpecPoller == Init /\ [][NextPoller]_vars /\ WF_vars(PollStep)

-----------------------------------------------------------------------------
(* start_collector_thread entered by several threads at once *)

NextStart ==
    \/ \E c \in Callers : CallCheck(c)
    \/ \E c \in Callers : CallStart(c)
    \/ PollStep
    \/ Shutdown

SpecStart == Init /\ [][NextStart]_vars

-----------------------------------------------------------------------------
(* Properties *)

\* the steps of background_loop that write to the table
PollerWrites == {"save", "save, count_failed", "cleanup"}

\* C1: once requests are served, every change of the stored record set is
\* made by a step of background_loop; no endpoint changes it.
C1_PollerOnlyWriter ==
    (store # prevStore /\ lastOp # "ensure_started") => lastOp \in PollerWrites

\* the instant before which cleanup_old_data evicts, at the current clock
CutoffInstant == now - RetentionSecs

\* C2: right after a cleanup pass has committed, no stored record is older
\* than the clock reading of the pass minus the retention window.
C2_RetentionAfterCleanup ==
    lastOp = "cleanup" =>
        \A r \in store : Instant(r.timestamp) >= CutoffInstant

\* a pass that evicted some records and kept others
C2_Witness ==
    /\ lastOp = "cleanup"
    /\ store # {}
    /\ prevStore \ store # {}

\* C3: a cleanup pass removes exactly the records whose instant lies
\* strictly before the cutoff and leaves the others as they were, whatever
\* their day column says; when every record is older the table is empty.
C3_EvictsExactly ==
    lastOp = "cleanup" =>
        /\ store = {r \in prevStore : Instant(r.timestamp) >= CutoffInstant}
        /\ (\A r \in prevStore : Instant(r.timestamp) < CutoffInstant)
              => get_record_count(store) = 0

\* a pass that split a day: of two records of one day, one exactly at the
\* cutoff stays and an earlier one goes
C3_Witness ==
    /\ lastOp = "cleanup"
    /\ \E r \in store, q \in prevStore \ store :
         /\ r.day = q.day
         /\ Instant(r.timestamp) = CutoffInstant

\* C4: ids are unique and every INSERT takes an id above all ids assigned
\* before it, evicted or not.
C4_IdsIncrease ==
    /\ \A i, j \in DOMAIN issued : i < j => issued[i] < issued[j]
    /\ \A r, q \in store : r.id = q.id => r = q
    /\ Ids(store) \subseteq {issued[i] : i \in DOMAIN issued}

\* an INSERT made after the record of the highest id had been evicted
C4_Witness ==
    /\ Len(issued) >= 2
    /\ issued[Len(issued)] \in Ids(store)
    /\ issued[Len(issued) - 1] \notin Ids(store)
    /\ lastOp \in {"save", "api_current"}
    /\ store # prevStore

\* C5: the day column of every stored record is the date part of its
\* timestamp.
C5_DayIsDatePrefix ==
    \A r \in store : r.day = DatePrefix(r.timestamp)

\* C6: every stored record has a latitude within [-90, 90] and a longitude
\* within [-180, 180] (hundredths of a degree here).
C6_LatLonInRange ==
    \A r \in store :
        /\ -9000 <= r.latitude /\ r.latitude <= 9000
        /\ -18000 <= r.longitude /\ r.longitude <= 18000

\* the coordinate fields of a payload, by its shape
PayloadLat(d) ==
    IF d.iss_position # None THEN d.iss_position[1].latitude ELSE d.latitude
PayloadLon(d) ==
    IF d.iss_position # None THEN d.iss_position[1].longitude ELSE d.longitude

LatLonMissing(d) ==
    d.kind = "json" /\ (IsNone(PayloadLat(d)) \/ IsNone(PayloadLon(d)))

\* valid coordinates, no altitude, a timestamp that is a number or left out
OnlyAltitudeMissing(d) ==
    /\ d.kind = "json"
    /\ Converts(PayloadLat(d)) /\ Converts(PayloadLon(d))
    /\ IsNone(d.altitude)
    /\ d.timestamp.tag \in {"absent", "num", "numstr"}

\* C7: a payload of either shape without latitude or longitude (missing or
\* null) is dropped by the fetch, is never handed to save_position and
\* leaves the table as it was; a payload with both and no altitude is
\* accepted and its save adds exactly one record, with altitude NULL.
C7_Rejection ==
    /\ (lastOp = "fetch" /\ LatLonMissing(payload)) =>
          pos = None /\ pc = "counter" /\ store = prevStore
    /\ (pc = "save" \/ lastOp \in {"save", "save, count_failed"}) =>
          ~ LatLonMissing(payload)
    /\ (lastOp = "fetch" /\ OnlyAltitudeMissing(payload)) =>
          pos # None /\ pos[1].altitude = None /\ pc = "save"
    /\ (lastOp \in {"save", "save, count_failed"}
          /\ OnlyAltitudeMissing(payload)) =>
          \E r \in store :
              /\ r \notin prevStore
              /\ store = prevStore \cup {r}
              /\ r.altitude = None
              /\ r.latitude = PayloadLat(payload).v
              /\ r.longitude = PayloadLon(payload).v

\* a nested payload with coordinates as text and no altitude has been saved
C7_Witness ==
    /\ lastOp = "save"
    /\ payload.kind = "json"
    /\ payload.iss_position # None
    /\ OnlyAltitudeMissing(payload)
    /\ \E r \in store \ prevStore : r.altitude = None

\* C8: a payload with valid coordinates whose timestamp is left out or is
\* not a number is accepted, with the clock reading of the fetch as its
\* timestamp.
C8_TimestampFallback ==
    (/\ lastOp = "fetch"
     /\ payload.kind = "json"
     /\ Converts(PayloadLat(payload)) /\ Converts(PayloadLon(payload))
     /\ IsNone(payload.altitude)
     /\ payload.timestamp.tag \in {"absent", "text"}) =>
        pos # None /\ pos[1].ts_utc = StrfTime(now) /\ pc = "save"

\* C9: a flat payload with valid coordinates whose altitude is present and
\* not a number is accepted, with altitude absent.
C9_BadAltitudeDropped ==
    (/\ lastOp = "fetch"
     /\ payload.kind = "json"
     /\ payload.iss_position = None
     /\ Converts(payload.latitude) /\ Converts(payload.longitude)
     /\ payload.altitude.tag = "text"
     /\ payload.timestamp.tag \in {"absent", "num", "numstr"}) =>
        pos # None /\ pos[1].altitude = None /\ pc = "save"

\* C10: background_loop ends only once stop_event is set; no failure of a
\* step of a cycle ends it.
C10_LoopSurvives ==
    pc \in {"crashed", "stopped"} => stop_event

\* the positions of background_loop inside its while loop
Running == {"loop", "fetch", "save", "counter", "cleanup", "wait"}

\* C11: background_loop leaves its loop only when stop_event is set, and no
\* fetch of the loop begins in a state where stop_event is already set.
C11_StopsOnlyOnSignal ==
    [][/\ (pc \in Running /\ pc' \notin Running) => stop_event
       /\ (pc = "fetch" /\ pc' # "fetch") => ~ stop_event]_vars

\* C12: once stop_event is set, a started background_loop ends; after the
\* signal the loop condition lets no new cycle begin, and a wait that ends
\* under the signal has let no time pass.
C12_StopTerminates ==
    /\ (stop_event /\ pc # "not_started") ~> (pc \in {"stopped", "crashed"})
    /\ [][(stop_event /\ pc = "loop") => pc' \in {"loop", "stopped"}]_vars
    /\ [][(stop_event /\ pc = "wait" /\ pc' # "wait") => now' = now]_vars

\* the loop has ended on the signal after at least one full cycle and wait
C12_Witness ==
    /\ stop_event
    /\ pc = "stopped"
    /\ lastOp = "check"
    /\ now > StartTime

\* the record inserted last: the one of the greatest id
LatestInserted(st) == CHOOSE r \in st : \A q \in st : q.id <= r.id

\* C13: api_current answers 404 when the table is empty and otherwise 200
\* with the record inserted last.  The table is taken as the request leaves
\* it, and a request whose own save failed is left aside.
C13_CurrentIsLatest ==
    (/\ lastOp = "api_current"
     /\ resp # None
     /\ (resp[1].pos = None \/ resp[1].saved)) =>
        IF store = {} THEN resp[1].status = 404
        ELSE /\ resp[1].status = 200
             /\ resp[1].body.latitude = LatestInserted(store).latitude
             /\ resp[1].body.longitude = LatestInserted(store).longitude
             /\ resp[1].body.altitude = LatestInserted(store).altitude
             /\ resp[1].body.ts_utc = LatestInserted(store).timestamp

Range(f) == {f[i] : i \in DOMAIN f}

\* the page sizes taken in the statements about pagination
PageSizes == {PerPageOf(pp) : pp \in PerPageArgs \cup {NumStr(1), NumStr(3)}}

\* the records on the pages 1 .. p together
RECURSIVE PagesUpTo(_, _, _, _, _)
PagesUpTo(st, day_filter, per_page, tie_asc, p) ==
    IF p = 0 THEN <<>>
    ELSE PagesUpTo(st, day_filter, per_page, tie_asc, p - 1)
         \o RecordsPage(st, day_filter, p, per_page, tie_asc)

\* the whole result in the order of the query, as the endpoint renders rows
WholeResult(st, day_filter, tie_asc) ==
    LET rows == DescOrder(Matching(st, day_filter), tie_asc)
    IN [i \in DOMAIN rows |-> Selected(rows[i])]

\* 25 records of one day, one second apart
ExampleStore ==
    {[id |-> i, latitude |-> 1050, longitude |-> 2010, altitude |-> None,
      timestamp |-> StrfTime(StartTime + i), day |-> StrfDate(StartTime)] :
       i \in 1 .. 25}

ExamplePage ==
    RecordsPage(ExampleStore, Some(StrfDate(StartTime)), 2, 10, TRUE)

\* C14: over an unchanged table, for every day filter and page size, the
\* pages 1 .. total_pages are slices of the matching records, no record is
\* on two pages and the page lengths add up to total; a response carries
\* the records at the places (page-1)*per_page+1 .. of the ordering.  With
\* 25 records page 2 of size 10 holds the 11th to 20th of 3 pages.
C14_PagesPartition ==
    /\ \A day_filter \in DayArgs, per_page \in PageSizes, b \in TieChoices :
         LET total == Cardinality(Matching(store, day_filter))
             last == TotalPages(total, per_page)
             page(p) == RecordsPage(store, day_filter, p, per_page, b)
             all == PagesUpTo(store, day_filter, per_page, b, last)
         IN /\ Len(all) = total
            /\ \A p, q \in 1 .. last :
                 p # q => Range(page(p)) \cap Range(page(q)) = {}
            /\ Range(all) = {Selected(r) : r \in Matching(store, day_filter)}
            /\ all = WholeResult(store, day_filter, b)
    /\ (lastOp = "api_all_records" /\ resp[1].status = 200) =>
         LET body == resp[1].body
             whole == WholeResult(store, resp[1].day_filter, ties_by_id[1])
             first == (body.page - 1) * body.per_page
         IN /\ body.total = Len(whole)
            /\ Len(body.records) =
                 Max2(0, Min2(body.per_page, body.total - first))
            /\ \A i \in DOMAIN body.records :
                 body.records[i] = whole[first + i]
    /\ Len(ExamplePage) = 10
    /\ \A i \in 1 .. 10 : ExamplePage[i].id = 25 - (10 + i) + 1
    /\ Cardinality(Matching(ExampleStore, Some(StrfDate(StartTime)))) = 25
    /\ TotalPages(25, 10) = 3

\* a second page has been served that holds records, of a result in which
\* two records have the same timestamp
C14_Witness ==
    /\ lastOp = "api_all_records"
    /\ resp[1].status = 200
    /\ resp[1].body.page = 2
    /\ resp[1].body.total_pages >= 2
    /\ Len(resp[1].body.records) >= 1
    /\ \E r, q \in Matching(store, resp[1].day_filter) :
         r # q /\ r.timestamp = q.timestamp

\* ceil(a / b) for a >= 0, b >= 1: the least n with n * b >= a
CeilDiv(a, b) ==
    CHOOSE n \in 0 .. a : n * b >= a /\ \A m \in 0 .. (n - 1) : m * b < a

\* C15 as stated: every listing carries total_pages = ceil(total / per_page),
\* for every total >= 0, and a page size of at most 5000.
C15_TotalPagesIsCeil ==
    (lastOp = "api_all_records" /\ resp[1].status = 200) =>
        /\ resp[1].body.total_pages =
             CeilDiv(resp[1].body.total, resp[1].body.per_page)
        /\ resp[1].body.per_page <= 5000

\* total_pages as the endpoint computes it, for the totals 0 .. MaxTotal
TotalPagesTable ==
    [total \in 0 .. MaxTotal |->
       [per_page \in PageSizes |-> TotalPages(total, per_page)]]

\* C15, amended: total_pages is ceil(total / per_page) for every total >= 1
\* and is 1 for total = 0; the page size lies in 1 .. 5000 and no page
\* holds more records than it.
C15_TotalPagesAmended ==
    /\ (lastOp = "api_all_records" /\ resp[1].status = 200) =>
         /\ resp[1].body.total_pages =
              IF resp[1].body.total = 0 THEN 1
              ELSE CeilDiv(resp[1].body.total, resp[1].body.per_page)
         /\ resp[1].body.per_page \in 1 .. 5000
         /\ Len(resp[1].body.records) <= resp[1].body.per_page
    /\ \A total \in 0 .. MaxTotal, per_page \in PageSizes :
         TotalPagesTable[total][per_page] =
           IF total = 0 THEN 1 ELSE CeilDiv(total, per_page)

\* a listing has been served whose total is not a multiple of its page size
C15_Witness ==
    /\ lastOp = "api_all_records"
    /\ resp[1].status = 200
    /\ resp[1].per_page_arg = NumStr(2)
    /\ resp[1].body.per_page = 2
    /\ resp[1].body.total >= 3
    /\ resp[1].body.total % 2 = 1

\* the query parameters of a listing request that are not valid: a page
\* that is no integer or is below 1, a day that is no date
BadParams(r) ==
    \/ r.page_arg.tag = "text"
    \/ r.page_arg.tag = "numstr" /\ r.page_arg.v < 1
    \/ r.day_filter # None /\ ~ IsDateText(r.day_filter[1])

\* C16: a listing request with a bad query parameter is answered with a
\* client error (4xx), neither with success nor with a server error.
C16_BadParamsClientError ==
    (lastOp = "api_all_records" /\ BadParams(resp[1])) =>
        resp[1].status \in 400 .. 499

\* the records an export is to hold: every stored record when no day is
\* given or all=1, else the stored records whose day is the given one
ExportWanted(r) ==
    IF r.day_filter = None \/ r.all_days THEN store
    ELSE {x \in store : x.day = r.day_filter[1]}

\* C17: the data rows of an export are the wanted records, one row each and
\* none twice, in ascending order of timestamp.
C17_ExportComplete ==
    lastOp = "download_csv" =>
        LET rows == resp[1].body IN
        /\ Len(rows) = Cardinality(ExportWanted(resp[1]))
        /\ {rows[i].id : i \in DOMAIN rows} = Ids(ExportWanted(resp[1]))
        /\ \A i \in DOMAIN rows : \E x \in ExportWanted(resp[1]) :
             /\ x.id = rows[i].id
             /\ x.latitude = rows[i].latitude
             /\ x.longitude = rows[i].longitude
             /\ x.altitude = rows[i].altitude
             /\ x.timestamp = rows[i].ts_utc
             /\ x.day = rows[i].day
        /\ \A i, j \in DOMAIN rows :
             i < j => Instant(rows[i].ts_utc) <= Instant(rows[j].ts_utc)

\* a full export of several records of distinct and of equal timestamps,
\* taken with all=1 beside a day, has been served
C17_Witness ==
    /\ lastOp = "download_csv"
    /\ resp[1].all_days
    /\ resp[1].day_filter # None
    /\ Len(resp[1].body) >= 3
    /\ \E i, j \in DOMAIN resp[1].body :
         i # j /\ resp[1].body[i].ts_utc = resp[1].body[j].ts_utc
    /\ \E i, j \in DOMAIN resp[1].body :
         resp[1].body[i].day # resp[1].body[j].day

\* C18: the eviction pass is invoked at the cycle that brings the count of
\* cycles since the previous pass to ceil(3600 / FETCH_INTERVAL), so not
\* before one hour of waits; a cycle that does not reach it invokes none;
\* after a pass, failed or not, the counter is 0.
C18_CleanupCadence ==
    /\ pc = "cleanup" =>
         /\ cleanup_counter = CeilDiv(3600, FETCH_INTERVAL)
         /\ cleanup_counter * FETCH_INTERVAL >= 3600
    /\ (lastOp = "counter" /\ pc = "wait") =>
         cleanup_counter < CeilDiv(3600, FETCH_INTERVAL)
    /\ lastOp \in {"cleanup", "cleanup_failed"} => cleanup_counter = 0

\* C19: whatever the calls of start_collector_thread, one after another or
\* several at once, at most one background_loop is started, and a call
\* returns only once one has been.
C19_OneCollector ==
    /\ threads <= 1
    /\ (\E c \in Callers : caller[c] = "returned") => threads = 1

====
